---- MODULE Spec2Model ----
(***************************************************************************)
(* A model of the grubby interpreter core (interpreter/vm/vm.go) and of    *)
(* the read-eval-print driver (main/irb/main.go).                          *)
(*                                                                         *)
(* The evaluator is recursive and single-threaded, so one driver step      *)
(* (vm.Run on one input) is one action; the evaluator itself is a family   *)
(* of recursive operators that thread the VM's fields through the          *)
(* evaluation, exactly in the order of the Go code.  Next to the VM's      *)
(* fields the threaded record carries observation fields (the event sets)  *)
(* that record what happened inside the evaluation: they never influence   *)
(* the evaluation.                                                         *)
(***************************************************************************)
EXTENDS Integers, Sequences, FiniteSets

VARIABLES
    currentFilename,   \* vm.currentFilename
    ObjectSpace,       \* vm.ObjectSpace: name -> value
    CurrentGlobals,    \* vm.CurrentGlobals: name -> value
    CurrentSymbols,    \* vm.CurrentSymbols: name -> symbol value
    stack,             \* vm.stack: frame labels, innermost first
    loadPath,          \* members of the array NewVM binds to loadPath
    kernelMethods,     \* private methods installed on ObjectSpace["Kernel"]
    crashed,           \* the process was aborted by a Go panic
    pc,                \* driver position: "read" or "print"
    result,            \* (value, error) of the Run the driver just made
    obs                \* observations of the Run the driver just made

vars == <<currentFilename, ObjectSpace, CurrentGlobals, CurrentSymbols, stack,
          loadPath, kernelMethods, crashed, pc, result, obs>>

----------------------------------------------------------------------------
(* Bounds *)

\* longest load path the driver's environment builds
MaxPath == 2
\* longest generated top-level statement sequence
MaxLen == 2
MaxRescue == 4

----------------------------------------------------------------------------
(* Runtime values.  Every value is a record of one shape: k is the class,  *)
(* s the text, n the number or instance identity, bt the backtrace an      *)
(* error value carries.  The Go nil Value and the Go nil error are NilV.   *)

Val(k, s, n) == [k |-> k, s |-> s, n |-> n, bt |-> ""]
NilV == Val("nil", "", 0)
NoErr == NilV
NewString(s) == Val("String", s, 0)
NewInt(n) == Val("Int", "", n)
NewSymbol(name, id) == Val("Symbol", name, id)
NewMethod(name) == Val("Method", name, 0)
TrueV == Val("True", "true", 0)
FalseV == Val("False", "false", 0)
mainObject == Val("Object", "main", 0)
LoadPathArray == Val("Array", "", 0)
ArgvArray == Val("Array", "", 1)

ErrVal(k, s, bt) == [k |-> k, s |-> s, n |-> 0, bt |-> bt]
NewNameError(name, str, cls, bt) ==
    ErrVal("NameError", "undefined local variable or method '" \o name \o "' for " \o str \o ":" \o cls, bt)
NewNoMethodError(name, str, cls, bt) ==
    ErrVal("NoMethodError", "undefined method '" \o name \o "' for " \o str \o ":" \o cls, bt)
NewLoadError(msg, bt) == ErrVal("LoadError", msg, bt)
NewParseError(filename) == ErrVal("ParseError", filename, "")

\* the string form of an error value, which a rescue clause is matched against
ValueString(v) == v.s
\* *ParseError has Error() only: it is no builtins.Value
IsValue(e) == e.k # "ParseError"

----------------------------------------------------------------------------
(* The call stack *)

Unshift(s, label) == <<label>> \o s
Shift(s) == IF s = <<>> THEN s ELSE Tail(s)
RECURSIVE StackString(_)
StackString(s) ==
    IF s = <<>> THEN "" ELSE Head(s) \o "\n" \o StackString(Tail(s))
RECURSIVE ShiftN(_, _)
ShiftN(s, k) == IF k = 0 THEN s ELSE ShiftN(Shift(s), k - 1)

----------------------------------------------------------------------------
(* Syntax nodes (package ast), as the parser hands them to the evaluator *)

Boolean(b) == [t |-> "Boolean", b |-> b]
ConstantInt(n) == [t |-> "ConstantInt", n |-> n]
SimpleString(s) == [t |-> "SimpleString", s |-> s]
Symbol(name) == [t |-> "Symbol", name |-> name]
GlobalVariable(name) == [t |-> "GlobalVariable", name |-> name]
BareReference(name) == [t |-> "BareReference", name |-> name]
FileNameConstReference == [t |-> "FileNameConstReference"]
IfBlock(c, body, else) == [t |-> "IfBlock", cond |-> c, body |-> body, else |-> else]
FuncDecl(name, body) == [t |-> "FuncDecl", name |-> name, body |-> body]
\* target is <<>> for a nil Target, <<node>> otherwise
CallExpression(target, func, args) ==
    [t |-> "CallExpression", target |-> target, func |-> func, args |-> args]
Assignment(lhs, rhs) == [t |-> "Assignment", lhs |-> lhs, rhs |-> rhs]
Rescue(class, body) == [class |-> class, body |-> body]
Begin(body, rescue) == [t |-> "Begin", body |-> body, rescue |-> rescue]
\* a node kind the evaluator's switch does not list
Alias == [t |-> "Alias"]

\* what parser.RubyParse leaves behind: a failure, or parser.Statements
ParseFailure == [ok |-> FALSE, stmts |-> <<>>]
Parsed(stmts) == [ok |-> TRUE, stmts |-> stmts]

----------------------------------------------------------------------------
(* The VM record threaded through one evaluation.                          *)
(*   fn, os, gl, sy, stack, lp, kernel: the vm's fields (see VARIABLES)    *)
(*   panic: a Go panic is unwinding (deferred calls still run)             *)
(*   units, steps, nrun and the event sets: observations only              *)

Lookup(map, key) == IF key \in DOMAIN map THEN map[key] ELSE NilV
Store(map, key, v) == [x \in DOMAIN map \cup {key} |-> IF x = key THEN v ELSE map[x]]

VMFields(m) == <<m.fn, m.os, m.gl, m.sy, m.stack, m.kernel, m.lp>>

NoEvents ==
    [runs |-> {}, starts |-> {}, seqs |-> {}, ifs |-> {}, begins |-> {},
     reqs |-> {}, files |-> {}, calls |-> {}, syms |-> {}, refs |-> {},
     assigns |-> {}, decls |-> {}, panics |-> {}, nexts |-> {}, order |-> {}]

Observe(m, kind, e) == [m EXCEPT !.ev[kind] = @ \cup {e}]

\* (value, error) pair an evaluation returns, with the VM it leaves behind;
\* fail: some statement of the sequence produced an error (observation)
Out(m, val, err) == [m |-> m, val |-> val, err |-> err, fail |-> err # NoErr]

\* what one statement of the loop does to the loop's locals:
\*   rv, re: returnValue, returnErr    ret: the function returns here
\*   nd: Shift calls the statement deferred    failed: it produced an error
Cont(m, rv, re, failed) ==
    [m |-> m, rv |-> rv, re |-> re, ret |-> FALSE, nd |-> 0, failed |-> failed]
Return(m, rv, re) ==
    [m |-> m, rv |-> rv, re |-> re, ret |-> TRUE, nd |-> 0, failed |-> re # NoErr]
Panic(m) ==
    [m |-> [m EXCEPT !.panic = TRUE], rv |-> NilV, re |-> NoErr, ret |-> TRUE,
     nd |-> 0, failed |-> FALSE]

\* Value.String() and Value.Class().String() as the error constructors use them
ValueClass(v) == IF v.k = "nil" THEN "NilClass" ELSE v.k

\* methods NewVM adds to main; no other receiver of the model has methods
HasMethod(target, name) ==
    target = mainObject /\ name \in {"to_s", "require", "puts"}

RECURSIVE executeWithContext(_, _, _)
RECURSIVE ExecLoop(_, _, _, _, _, _, _, _, _)
RECURSIVE ExecStatement(_, _, _, _, _)
RECURSIVE ExecIf(_, _, _, _, _)
RECURSIVE ExecCall(_, _, _, _, _)
RECURSIVE EvalArgs(_, _, _, _, _)
RECURSIVE ExecAssignment(_, _, _, _, _)
RECURSIVE ExecBegin(_, _, _, _, _)
RECURSIVE RescueLoop(_, _, _, _, _, _, _)
RECURSIVE RescueLoopMatchesCurrent(_, _, _, _, _, _, _)
RECURSIVE Execute(_, _, _)
RECURSIVE Require(_, _)
RECURSIVE RequireSearch(_, _, _, _, _)
RECURSIVE RequireLoad(_, _, _, _, _)
RECURSIVE Run(_, _)

----------------------------------------------------------------------------
(* The file system require reads: path -> what os.Open and ioutil.ReadAll  *)
(* give.  A path that is absent cannot be opened; a directory opens but    *)
(* cannot be read.                                                         *)

Dirs == {"/a", "/b"}
\* filepath.Join of a clean directory and a file name
Join(dir, file) == dir \o "/" \o file

RegularFile(input) == [kind |-> "file", contents |-> input]
Directory == [kind |-> "dir", contents |-> ParseFailure]

RequireCall(unit) == CallExpression(<<>>, "require", <<SimpleString(unit)>>)

FileSystem ==
    [p \in {"/b/foo.rb", "/a/two.rb", "/b/two.rb", "/a/dup.rb", "/b/dup.rb",
            "/b/outer.rb", "/a/bad.rb", "/b/err.rb", "/a/outer2.rb",
            "/a/rubygems.rb"} |->
        CASE p = "/b/foo.rb" ->
               RegularFile(Parsed(<<Assignment(GlobalVariable("f"), FileNameConstReference)>>))
          [] p = "/a/two.rb" ->
               RegularFile(Parsed(<<Assignment(GlobalVariable("f"), FileNameConstReference)>>))
          [] p = "/b/two.rb" ->
               RegularFile(Parsed(<<Assignment(GlobalVariable("f"), FileNameConstReference)>>))
          [] p = "/a/dup.rb" -> Directory
          [] p = "/b/dup.rb" ->
               RegularFile(Parsed(<<Assignment(GlobalVariable("f"), FileNameConstReference)>>))
          [] p = "/b/outer.rb" ->
               RegularFile(Parsed(<<RequireCall("foo"),
                                    Assignment(GlobalVariable("f"), FileNameConstReference)>>))
          [] p = "/a/bad.rb" -> RegularFile(ParseFailure)
          [] p = "/b/err.rb" ->
               RegularFile(Parsed(<<FileNameConstReference, BareReference("y")>>))
          [] p = "/a/rubygems.rb" ->
               RegularFile(Parsed(<<Assignment(GlobalVariable("f"), FileNameConstReference)>>))
          [] p = "/a/outer2.rb" ->
               RegularFile(Parsed(<<RequireCall("err"),
                                    Assignment(GlobalVariable("f"), FileNameConstReference)>>))]

CanOpen(path) == path \in DOMAIN FileSystem
CanRead(path) == CanOpen(path) /\ FileSystem[path].kind = "file"

----------------------------------------------------------------------------
(* The evaluator: vm.executeWithContext.  The result of each nested call    *)
(* is bound once, as the argument of a local operator.                     *)

executeWithContext(statements, context, m) ==
    ExecLoop(statements, 1, context, m, NilV, NoErr, 0, m.stack, FALSE)

\* the for loop over statements; nd counts the deferred Shift calls, which
\* run when the function returns (or a panic unwinds through it)
ExecLoop(statements, i, context, m, rv, re, nd, entry, anyFail) ==
    IF i > Len(statements)
    THEN [m |-> [m EXCEPT !.stack = ShiftN(@, nd)], val |-> rv, err |-> re,
          fail |-> anyFail]
    ELSE
      LET fresh == rv = NilV /\ re = NoErr
          m1 == Observe([m EXCEPT !.steps = @ + 1], "starts",
                        [entry |-> entry, at |-> m.stack, i |-> i])
          \* r: the statement in the loop; other: the statement evaluated alone
          After(r, other) ==
              LET alone == IF fresh THEN r ELSE other
                  m2 == IF i = Len(statements) /\ ~r.m.panic
                        THEN Observe(r.m, "seqs",
                                     [val |-> r.rv, err |-> r.re,
                                      lastVal |-> alone.rv, lastErr |-> alone.re,
                                      last |-> statements[i].t])
                        ELSE r.m
                  \* whether the loop goes on after statement i, and what is left
                  m3 == IF r.m.panic THEN m2
                        ELSE Observe(m2, "nexts",
                                     [prev |-> statements[i].t, failed |-> r.failed,
                                      cont |-> ~r.ret, left |-> Len(statements) - i])
              IN IF r.ret
                 THEN [m |-> [m3 EXCEPT !.stack = ShiftN(@, nd + r.nd)],
                       val |-> r.rv, err |-> r.re, fail |-> anyFail \/ r.failed]
                 ELSE ExecLoop(statements, i + 1, context, m3, r.rv, r.re, nd + r.nd,
                               entry, anyFail \/ r.failed)
      IN After(ExecStatement(statements[i], context, m1, rv, re),
               IF fresh \/ i # Len(statements) THEN Cont(m1, NilV, NoErr, FALSE)
               ELSE ExecStatement(statements[i], context, m1, NilV, NoErr))

\* ExecSymbol constructing and caching a new Symbol at every evaluation
ExecSymbolAlwaysNew(node, m, rv, re) ==
    LET sym == NewSymbol(node.name, Cardinality(DOMAIN m.sy))
    IN Cont(Observe([m EXCEPT !.sy = Store(@, node.name, sym)], "syms",
                    [name |-> node.name, val |-> sym, hit |-> node.name \in DOMAIN m.sy]),
            sym, re, FALSE)

\* case ast.Symbol; a new Symbol is a new instance, told apart by its number
ExecSymbol(node, m, rv, re) ==
    IF node.name \in DOMAIN m.sy
    THEN Cont(Observe(m, "syms", [name |-> node.name, val |-> m.sy[node.name], hit |-> TRUE]),
              m.sy[node.name], re, FALSE)
    ELSE LET sym == NewSymbol(node.name, Cardinality(DOMAIN m.sy))
         IN Cont(Observe([m EXCEPT !.sy = Store(@, node.name, sym)], "syms",
                         [name |-> node.name, val |-> sym, hit |-> FALSE]),
                 sym, re, FALSE)

\* what a reference to a name found: the value and the error it produced,
\* next to what the two namespaces hold for the name
RefEvent(kind, name, m, val, err) ==
    [kind |-> kind, name |-> name, val |-> val, err |-> err,
     inOs |-> name \in DOMAIN m.os, os |-> Lookup(m.os, name),
     inGl |-> name \in DOMAIN m.gl, gl |-> Lookup(m.gl, name),
     stack |-> m.stack]

\* case ast.GlobalVariable: a map read, nil when the name is absent
ExecGlobalVariable(node, m, rv, re) ==
    LET val == Lookup(m.gl, node.name)
    IN Cont(Observe(m, "refs", RefEvent("global", node.name, m, val, NoErr)), val, re, FALSE)

\* ExecBareReference resolving like vm.Get: object space first, then globals
ExecBareReferenceLikeGet(node, context, m, rv, re) ==
    IF node.name \in DOMAIN m.os
    THEN Cont(Observe(m, "refs", RefEvent("bare", node.name, m, m.os[node.name], NoErr)),
              m.os[node.name], re, FALSE)
    ELSE IF node.name \in DOMAIN m.gl
    THEN Cont(Observe(m, "refs", RefEvent("bare", node.name, m, m.gl[node.name], NoErr)),
              m.gl[node.name], re, FALSE)
    ELSE IF context = NilV THEN Panic(m)
    ELSE LET err == NewNameError(node.name, ValueString(context), ValueClass(context),
                                 StackString(m.stack))
         IN Cont(Observe(m, "refs", RefEvent("bare", node.name, m, NilV, err)), rv, err, TRUE)

\* case ast.BareReference
ExecBareReference(node, context, m, rv, re) ==
    IF node.name \in DOMAIN m.os
    THEN Cont(Observe(m, "refs", RefEvent("bare", node.name, m, m.os[node.name], NoErr)),
              m.os[node.name], re, FALSE)
    ELSE IF context = NilV THEN Panic(m)
    ELSE LET err == NewNameError(node.name, ValueString(context), ValueClass(context),
                                 StackString(m.stack))
         IN Cont(Observe(m, "refs", RefEvent("bare", node.name, m, NilV, err)), rv, err, TRUE)

\* the closure a FuncDecl wraps in its method: it ignores its arguments and
\* the declared body
DeclaredMethod(node, args, m) == Out(m, NilV, NoErr)

\* argument lists the declared method is applied to
SampleArgs == { <<>>, <<NewInt(1)>>, <<NewString("s"), NilV>> }

\* what a FuncDecl did: m is the vm before the statement, after the vm after it
DeclEvent(node, m, after, val) ==
    [name |-> node.name, val |-> val,
     installed |-> node.name \in after.kernel,
     others |-> after.kernel \ {node.name} = m.kernel \ {node.name},
     same |-> <<after.fn, after.os, after.gl, after.sy, after.stack, after.lp>>
                = <<m.fn, m.os, m.gl, m.sy, m.stack, m.lp>>,
     quiet |-> after.ev = m.ev /\ ~after.panic,
     invoked |-> { [val |-> DeclaredMethod(node, args, after).val,
                    err |-> DeclaredMethod(node, args, after).err,
                    same |-> DeclaredMethod(node, args, after).m = after] :
                   args \in SampleArgs }]

\* ExecFuncDecl evaluating the declared body when the method is declared
ExecFuncDeclRunsBody(node, context, m, rv, re) ==
    LET Install(r) ==
            Cont(Observe([r.m EXCEPT !.kernel = @ \cup {node.name}], "decls",
                         DeclEvent(node, m, [r.m EXCEPT !.kernel = @ \cup {node.name}],
                                   NewMethod(node.name))),
                 NewMethod(node.name), re, FALSE)
    IN Install(executeWithContext(node.body, context, m))

\* case ast.FuncDecl
ExecFuncDecl(node, context, m, rv, re) ==
    LET after == [m EXCEPT !.kernel = @ \cup {node.name}]
    IN Cont(Observe(after, "decls", DeclEvent(node, m, after, NewMethod(node.name))),
            NewMethod(node.name), re, FALSE)

\* the switch on the statement's type
ExecStatement(node, context, m, rv, re) ==
    CASE node.t = "IfBlock" -> ExecIf(node, context, m, rv, re)
      [] node.t = "FuncDecl" -> ExecFuncDecl(node, context, m, rv, re)
      [] node.t = "SimpleString" -> Cont(m, NewString(node.s), re, FALSE)
      [] node.t = "Boolean" -> Cont(m, IF node.b THEN TrueV ELSE FalseV, re, FALSE)
      [] node.t = "GlobalVariable" -> ExecGlobalVariable(node, m, rv, re)
      [] node.t = "ConstantInt" -> Cont(m, NewInt(node.n), re, FALSE)
      [] node.t = "Symbol" -> ExecSymbol(node, m, rv, re)
      [] node.t = "BareReference" -> ExecBareReference(node, context, m, rv, re)
      [] node.t = "CallExpression" -> ExecCall(node, context, m, rv, re)
      [] node.t = "Assignment" -> ExecAssignment(node, context, m, rv, re)
      [] node.t = "FileNameConstReference" ->
           Cont(Observe(m, "files", [val |-> m.fn, unit |-> Head(m.units)]),
                NewString(m.fn), re, FALSE)
      [] node.t = "Begin" -> ExecBegin(node, context, m, rv, re)
      [] OTHER -> Panic(m)

\* IfCondition with a general truthiness pass: any other condition is evaluated
IfConditionEvaluated(cond, context, m) ==
    CASE cond.t = "Boolean" -> [truthy |-> cond.b, m |-> m]
      [] cond.t = "BareReference" -> [truthy |-> (cond.name = "nil"), m |-> m]
      [] OTHER -> LET Of(c) == [truthy |-> (c.val # NilV /\ c.val # FalseV), m |-> c.m]
                  IN Of(executeWithContext(<<cond>>, context, m))

\* case ast.IfBlock, the switch on the condition's type: which branch, and
\* the VM the branch starts in
IfCondition(cond, context, m) ==
    CASE cond.t = "Boolean" -> [truthy |-> cond.b, m |-> m]
      [] cond.t = "BareReference" -> [truthy |-> (cond.name = "nil"), m |-> m]
      [] OTHER -> [truthy |-> TRUE, m |-> m]

\* case ast.IfBlock
ExecIf(node, context, m, rv, re) ==
    LET Branch(c) ==
            LET e == [kind |-> node.cond.t,
                      name |-> IF node.cond.t = "BareReference" THEN node.cond.name ELSE "",
                      lit |-> IF node.cond.t = "Boolean" THEN node.cond.b ELSE FALSE,
                      branch |-> IF c.truthy THEN "then" ELSE "else",
                      untouched |-> (VMFields(c.m) = VMFields(m) /\ c.m.steps = m.steps)]
            IN executeWithContext(IF c.truthy THEN node.body ELSE node.else, context,
                                  Observe(c.m, "ifs", e))
        After(r) == IF r.m.panic THEN Panic(r.m)
                    ELSE Cont(r.m, r.val, r.err, r.err # NoErr)
    IN After(Branch(IfCondition(node.cond, context, m)))

\* the loop over callExpr.Args: [m, args, err]
EvalArgs(astArgs, i, context, m, args) ==
    IF i > Len(astArgs) THEN [m |-> m, args |-> args, err |-> NoErr]
    ELSE LET After(a) ==
                 IF a.m.panic \/ a.err # NoErr
                 THEN [m |-> a.m, args |-> args, err |-> a.err]
                 ELSE EvalArgs(astArgs, i + 1, context, a.m, Append(args, a.val))
         IN After(executeWithContext(<<astArgs[i]>>, context, m))

\* how a CallExpression ended: m0 is the vm after the receiver was
\* evaluated, m1 the vm after the arguments were, out the vm at the end
\*   argSteps: statements started for the arguments
\*   pushed: a frame for the call is on the stack    invoked: Execute ran
CallEvent(node, stage, entry, m0, m1, out, args, err) ==
    [func |-> node.func, stage |-> stage, nargs |-> Len(node.args),
     atoms |-> \A k \in 1..Len(node.args) : node.args[k].t # "CallExpression",
     ints |-> {k \in 1..Len(node.args) : node.args[k] = ConstantInt(1)},
     argSteps |-> m1.steps - m0.steps, args |-> args,
     pushed |-> out.stack # entry.stack, invoked |-> out.nexec # m1.nexec,
     err |-> err.k]

\* ExecCall evaluating the arguments before it looks at the receiver
ExecCallArgsFirst(node, context, m, rv, re) ==
    LET Executed(ar, x) ==
            [m |-> IF x.m.panic THEN x.m
                   ELSE Observe(x.m, "order",
                                CallEvent(node, "executed", m, m, ar.m, x.m, ar.args, x.err)),
             rv |-> x.val, re |-> x.err,
             ret |-> (x.m.panic \/ x.err # NoErr), nd |-> 1, failed |-> x.err # NoErr]
        Stop(stage, ar, tr, err) ==
            Return(Observe(tr.m, "order",
                           CallEvent(node, stage, m, m, ar.m, tr.m, ar.args, err)),
                   NilV, err)
        WithTarget(ar, tr) ==
            IF tr.m.panic THEN Panic(tr.m)
            ELSE IF tr.err # NoErr THEN Stop("receiver", ar, tr, tr.err)
            ELSE IF tr.val = NilV
            THEN Stop("nil", ar, tr,
                      NewNoMethodError(node.func, "nil", "NilClass", StackString(tr.m.stack)))
            ELSE IF ~HasMethod(tr.val, node.func)
            THEN Stop("lookup", ar, tr,
                      NewNameError(node.func, ValueString(tr.val), ValueClass(tr.val),
                                   StackString(tr.m.stack)))
            ELSE IF ar.err # NoErr THEN Stop("args", ar, tr, ar.err)
            ELSE Executed(ar, Execute(node.func, ar.args,
                                      Observe([tr.m EXCEPT !.stack = Unshift(@, node.func)],
                                              "calls",
                                              [func |-> node.func, before |-> tr.m.stack])))
        WithArgs(ar) ==
            IF ar.m.panic THEN Panic(ar.m)
            ELSE WithTarget(ar, IF node.target = <<>> THEN Out(ar.m, context, NoErr)
                                ELSE executeWithContext(node.target, context, ar.m))
    IN WithArgs(EvalArgs(node.args, 1, context, m, <<>>))

\* case ast.CallExpression
ExecCall(node, context, m, rv, re) ==
    LET \* x: what method.Execute returned, with the frame still pushed
        Executed(tr, ar, x) ==
            [m |-> IF x.m.panic THEN x.m
                   ELSE Observe(x.m, "order",
                                CallEvent(node, "executed", m, tr.m, ar.m, x.m, ar.args,
                                          x.err)),
             rv |-> x.val, re |-> x.err,
             ret |-> (x.m.panic \/ x.err # NoErr), nd |-> 1, failed |-> x.err # NoErr]
        \* the call returns an error before a frame is pushed
        Stop(stage, tr, ar, err) ==
            Return(Observe(ar.m, "order",
                           CallEvent(node, stage, m, tr.m, ar.m, ar.m, ar.args, err)),
                   NilV, err)
        \* ar: the evaluated arguments
        WithArgs(tr, ar) ==
            IF ar.m.panic THEN Panic(ar.m)
            ELSE IF ar.err # NoErr THEN Stop("args", tr, ar, ar.err)
            ELSE Executed(tr, ar,
                          Execute(node.func, ar.args,
                                  Observe([ar.m EXCEPT !.stack = Unshift(@, node.func)],
                                          "calls",
                                          [func |-> node.func, before |-> ar.m.stack])))
        \* no argument was evaluated
        NoArgs(tr) == [m |-> tr.m, args |-> <<>>, err |-> NoErr]
        \* tr: the evaluated receiver
        WithTarget(tr) ==
            IF tr.m.panic THEN Panic(tr.m)
            ELSE IF tr.err # NoErr THEN Stop("receiver", tr, NoArgs(tr), tr.err)
            ELSE IF tr.val = NilV
            THEN Stop("nil", tr, NoArgs(tr),
                      NewNoMethodError(node.func, "nil", "NilClass",
                                       StackString(tr.m.stack)))
            ELSE IF ~HasMethod(tr.val, node.func)
            THEN Stop("lookup", tr, NoArgs(tr),
                      NewNameError(node.func, ValueString(tr.val), ValueClass(tr.val),
                                   StackString(tr.m.stack)))
            ELSE WithArgs(tr, EvalArgs(node.args, 1, context, tr.m, <<>>))
    IN WithTarget(IF node.target = <<>> THEN Out(m, context, NoErr)
                  ELSE executeWithContext(node.target, context, m))

\* what an Assignment did: r is the evaluated right-hand side, out the
\* statement's outcome
AssignEvent(node, r, out) ==
    [kind |-> node.lhs.t,
     name |-> IF node.lhs.t \in {"BareReference", "GlobalVariable"} THEN node.lhs.name ELSE "",
     failed |-> r.err # NoErr, val |-> r.val, ret |-> out.ret,
     osSame |-> out.m.os = r.m.os, glSame |-> out.m.gl = r.m.gl,
     os |-> out.m.os, gl |-> out.m.gl]

\* ExecAssignment binding every left-hand side in object space
ExecAssignmentIntoObjectSpace(node, context, m, rv, re) ==
    LET Done(r, out) == [out EXCEPT !.m = Observe(@, "assigns", AssignEvent(node, r, out))]
        Bind(r) ==
            IF r.m.panic THEN Panic(r.m)
            ELSE IF r.err # NoErr THEN Done(r, Return(r.m, NilV, r.err))
            ELSE IF node.lhs.t \in {"BareReference", "GlobalVariable"}
            THEN Done(r, Cont([r.m EXCEPT !.os = Store(@, node.lhs.name, r.val)],
                              rv, re, FALSE))
            ELSE Panic(r.m)
    IN Bind(executeWithContext(<<node.rhs>>, context, m))

\* ExecAssignment binding the left-hand side before it looks at the error
ExecAssignmentBindsFirst(node, context, m, rv, re) ==
    LET Done(r, out) == [out EXCEPT !.m = Observe(@, "assigns", AssignEvent(node, r, out))]
        Bound(r) ==
            CASE node.lhs.t = "BareReference" -> [r.m EXCEPT !.os = Store(@, node.lhs.name, r.val)]
              [] node.lhs.t = "GlobalVariable" -> [r.m EXCEPT !.gl = Store(@, node.lhs.name, r.val)]
              [] OTHER -> r.m
        Bind(r) ==
            IF r.m.panic THEN Panic(r.m)
            ELSE IF r.err # NoErr THEN Done(r, Return(Bound(r), NilV, r.err))
            ELSE IF node.lhs.t \in {"BareReference", "GlobalVariable"}
            THEN Done(r, Cont(Bound(r), rv, re, FALSE))
            ELSE Panic(r.m)
    IN Bind(executeWithContext(<<node.rhs>>, context, m))

\* case ast.Assignment
ExecAssignment(node, context, m, rv, re) ==
    LET Done(r, out) == [out EXCEPT !.m = Observe(@, "assigns", AssignEvent(node, r, out))]
        Bind(r) ==
            IF r.m.panic THEN Panic(r.m)
            ELSE IF r.err # NoErr THEN Done(r, Return(r.m, NilV, r.err))
            ELSE CASE node.lhs.t = "BareReference" ->
                        Done(r, Cont([r.m EXCEPT !.os = Store(@, node.lhs.name, r.val)],
                                     rv, re, FALSE))
                   [] node.lhs.t = "GlobalVariable" ->
                        Done(r, Cont([r.m EXCEPT !.gl = Store(@, node.lhs.name, r.val)],
                                     rv, re, FALSE))
                   [] OTHER -> Panic(r.m)
    IN Bind(executeWithContext(<<node.rhs>>, context, m))

\* RescueLoop matching each clause against the error so far (err) instead of
\* the body's error (rubyErr); matched, rescued, rescueVal: observations
\* ran: the clause bodies evaluated so far, as <<[i, err]>> (observation)
RescueLoopMatchesCurrent(rescues, i, context, m, rubyErr, err, ran) ==
    IF i > Len(rescues)
    THEN [m |-> m, err |-> err, matched |-> ran # <<>>, rescued |-> FALSE,
          rescueVal |-> NilV, ran |-> ran]
    ELSE IF rescues[i].class = ValueString(err)
    THEN LET After(r) ==
                 IF r.m.panic \/ r.err = NoErr
                 THEN [m |-> r.m, err |-> NoErr, matched |-> TRUE, rescued |-> TRUE,
                       rescueVal |-> r.val,
                       ran |-> Append(ran, [i |-> i, err |-> r.err])]
                 ELSE RescueLoopMatchesCurrent(rescues, i + 1, context, r.m, rubyErr, r.err,
                                               Append(ran, [i |-> i, err |-> r.err]))
         IN After(executeWithContext(rescues[i].body, context, m))
    ELSE RescueLoopMatchesCurrent(rescues, i + 1, context, m, rubyErr, err, ran)

\* the loop over begin.Rescue
RescueLoop(rescues, i, context, m, rubyErr, err, ran) ==
    IF i > Len(rescues)
    THEN [m |-> m, err |-> err, matched |-> ran # <<>>, rescued |-> FALSE,
          rescueVal |-> NilV, ran |-> ran]
    ELSE IF rescues[i].class = ValueString(rubyErr)
    THEN LET After(r) ==
                 IF r.m.panic \/ r.err = NoErr
                 THEN [m |-> r.m, err |-> NoErr, matched |-> TRUE, rescued |-> TRUE,
                       rescueVal |-> r.val,
                       ran |-> Append(ran, [i |-> i, err |-> r.err])]
                 ELSE RescueLoop(rescues, i + 1, context, r.m, rubyErr, r.err,
                                 Append(ran, [i |-> i, err |-> r.err]))
         IN After(executeWithContext(rescues[i].body, context, m))
    ELSE RescueLoop(rescues, i + 1, context, m, rubyErr, err, ran)

\* case ast.Begin
ExecBegin(node, context, m, rv, re) ==
    LET Rescued(bodyErr, rs) ==
            LET re2 == IF rs.err # NoErr THEN rs.err ELSE re
                e == [bodyErr |-> bodyErr, matched |-> rs.matched, rescued |-> rs.rescued,
                      rescueVal |-> rs.rescueVal, fresh |-> (rv = NilV /\ re = NoErr),
                      val |-> rv, err |-> re2,
                      classes |-> [i \in 1..Len(node.rescue) |-> node.rescue[i].class],
                      ran |-> rs.ran, added |-> rs.err, before |-> re]
            IN IF rs.m.panic THEN Panic(rs.m)
               ELSE Cont(Observe(rs.m, "begins", e), rv, re2, rs.err # NoErr)
        After(b) ==
            IF b.m.panic THEN Panic(b.m)
            ELSE IF b.err = NoErr THEN Cont(b.m, rv, re, FALSE)
            ELSE IF ~IsValue(b.err)
            THEN Panic(Observe(b.m, "panics", [at |-> "Begin", err |-> b.err]))
            ELSE Rescued(b.err, RescueLoop(node.rescue, 1, context, b.m, b.err, b.err, <<>>))
    IN After(executeWithContext(node.body, context, m))

----------------------------------------------------------------------------
(* The methods NewVM adds to main, and vm.Run *)

\* RequireMiss naming the file instead of the requested unit
RequireMissNamesFile(fileName, m, tried, opened) ==
    [m |-> m, val |-> NilV,
     err |-> NewLoadError("LoadError: cannot load such file -- " \o fileName \o ".rb",
                          StackString(m.stack)),
     path |-> "", tried |-> tried, opened |-> opened, fnIn |-> ""]

\* no directory of the load path gave a readable file
RequireMiss(fileName, m, tried, opened) ==
    [m |-> m, val |-> NilV,
     err |-> NewLoadError("LoadError: cannot load such file -- " \o fileName,
                          StackString(m.stack)),
     path |-> "", tried |-> tried, opened |-> opened, fnIn |-> ""]

\* RequireLoad restoring the unit name only when the nested run succeeded
RequireLoadRestoreOnSuccess(fileName, fullPath, m, tried, opened) ==
    LET originalName == m.fn
        After(r) ==
            [m |-> [r.m EXCEPT !.fn = IF r.err = NoErr THEN originalName ELSE @,
                               !.units = Tail(@)],
             val |-> TrueV, err |-> r.err,
             path |-> fullPath, tried |-> tried, opened |-> opened, fnIn |-> fullPath]
    IN After(Run(FileSystem[fullPath].contents,
                 [m EXCEPT !.fn = fullPath, !.units = <<fullPath>> \o @]))

\* the file was opened and read: swap the unit name, run, restore (deferred)
RequireLoad(fileName, fullPath, m, tried, opened) ==
    LET originalName == m.fn
        After(r) ==
            [m |-> [r.m EXCEPT !.fn = originalName, !.units = Tail(@)],
             val |-> TrueV, err |-> r.err,
             path |-> fullPath, tried |-> tried, opened |-> opened, fnIn |-> fullPath]
    IN After(Run(FileSystem[fullPath].contents,
                 [m EXCEPT !.fn = fullPath, !.units = <<fullPath>> \o @]))

\* the loop over loadPath.Members()
RequireSearch(fileName, i, m, tried, opened) ==
    IF i > Len(m.lp) THEN RequireMiss(fileName, m, tried, opened)
    ELSE LET fullPath == Join(m.lp[i], fileName \o ".rb")
         IN IF ~CanOpen(fullPath)
            THEN RequireSearch(fileName, i + 1, m, Append(tried, fullPath), opened)
            ELSE IF ~CanRead(fullPath)
            THEN RequireSearch(fileName, i + 1, m, Append(tried, fullPath),
                               Append(opened, fullPath))
            ELSE RequireLoad(fileName, fullPath, m, Append(tried, fullPath),
                             Append(opened, fullPath))

\* Require without the special case for "rubygems"
RequireWithoutShim(args, m) ==
    IF args = <<>> \/ args[1].k # "String" THEN Out([m EXCEPT !.panic = TRUE], NilV, NoErr)
    ELSE
      LET fileName == ValueString(args[1])
          After(r) ==
              LET e == [unit |-> fileName, lp |-> m.lp, path |-> r.path,
                        tried |-> r.tried, opened |-> r.opened, fnBefore |-> m.fn,
                        fnIn |-> r.fnIn, fnAfter |-> r.m.fn, val |-> r.val, err |-> r.err,
                        stack |-> m.stack, depth |-> Len(m.units),
                        same |-> (VMFields(r.m) = VMFields(m)),
                        evaluated |-> (r.m.steps # m.steps \/ r.m.nrun # m.nrun)]
              IN IF r.m.panic THEN Out(r.m, NilV, NoErr)
                 ELSE Out(Observe(r.m, "reqs", e), r.val, r.err)
      IN After(RequireSearch(fileName, 1, m, <<>>, <<>>))

\* main.require
Require(args, m) ==
    IF args = <<>> \/ args[1].k # "String" THEN Out([m EXCEPT !.panic = TRUE], NilV, NoErr)
    ELSE
      LET fileName == ValueString(args[1])
          After(r) ==
              LET e == [unit |-> fileName, lp |-> m.lp, path |-> r.path,
                        tried |-> r.tried, opened |-> r.opened, fnBefore |-> m.fn,
                        fnIn |-> r.fnIn, fnAfter |-> r.m.fn, val |-> r.val, err |-> r.err,
                        stack |-> m.stack, depth |-> Len(m.units),
                        same |-> (VMFields(r.m) = VMFields(m)),
                        evaluated |-> (r.m.steps # m.steps \/ r.m.nrun # m.nrun)]
              IN IF r.m.panic THEN Out(r.m, NilV, NoErr)
                 ELSE Out(Observe(r.m, "reqs", e), r.val, r.err)
      IN After(IF fileName = "rubygems"
               THEN [m |-> m, val |-> FalseV, err |-> NoErr, path |-> "",
                     tried |-> <<>>, opened |-> <<>>, fnIn |-> ""]
               ELSE RequireSearch(fileName, 1, m, <<>>, <<>>))

\* method.Execute for the methods of main
Execute(name, args, m) ==
    LET m1 == [m EXCEPT !.nexec = @ + 1]
    IN CASE name = "to_s" -> Out(m1, NewString("main"), NoErr)
         [] name = "require" -> Require(args, m1)
         [] name = "puts" ->
              IF \E i \in 1..Len(args) : args[i] = NilV
              THEN Out([m1 EXCEPT !.panic = TRUE], NilV, NoErr)
              ELSE Out(m1, NilV, NoErr)

\* what a Run that parsed its input records when it returns
RunEvent(m, done, r) ==
    [before |-> m.stack, after |-> done.stack,
     out |-> IF r.err = NoErr THEN "ok" ELSE r.err.k,
     nested |-> Len(m.units) > 1, fail |-> r.fail, evaluated |-> (done.steps # m.steps)]

\* what a Run that failed to parse its input returns
RunParseError(m) ==
    Out(Observe([m EXCEPT !.nrun = @ + 1], "runs",
                [before |-> m.stack, after |-> m.stack, out |-> "ParseError",
                 nested |-> Len(m.units) > 1, fail |-> FALSE, evaluated |-> FALSE]),
        NilV, NewParseError(m.fn))

\* Run popping its frame only when the evaluation succeeded
RunShiftOnSuccessOnly(input, m) ==
    IF ~input.ok THEN RunParseError(m)
    ELSE
      LET After(r) ==
              LET done == [r.m EXCEPT !.stack = IF r.err = NoErr THEN Shift(@) ELSE @]
              IN IF done.panic THEN Out(done, NilV, NoErr)
                 ELSE Out(Observe(done, "runs", RunEvent(m, done, r)), r.val, r.err)
      IN After(executeWithContext(input.stmts, Lookup(m.os, "main"),
                                  [m EXCEPT !.nrun = @ + 1, !.stack = Unshift(@, "main")]))

\* vm.Run
Run(input, m) ==
    IF ~input.ok THEN RunParseError(m)
    ELSE
      LET After(r) ==
              LET done == [r.m EXCEPT !.stack = Shift(@)]
              IN IF done.panic THEN Out(done, NilV, NoErr)
                 ELSE Out(Observe(done, "runs", RunEvent(m, done, r)), r.val, r.err)
      IN After(executeWithContext(input.stmts, Lookup(m.os, "main"),
                                  [m EXCEPT !.nrun = @ + 1, !.stack = Unshift(@, "main")]))

----------------------------------------------------------------------------
(* The inputs the driver reads *)

MainName == "(grubby irb"
NameErrorY == ValueString(NewNameError("y", "main", "Object", ""))
NameErrorZ == ValueString(NewNameError("z", "main", "Object", ""))
LoadErrorNone == "LoadError: cannot load such file -- none"
PutsCall(arg) == CallExpression(<<>>, "puts", <<arg>>)
One == ConstantInt(1)
Two == ConstantInt(2)

\* statements the generated sequences are built from
Atoms ==
    { BareReference("y"),
      One,
      IfBlock(Boolean(TRUE), <<Two>>, <<>>),
      PutsCall(SimpleString("hi")),
      Assignment(BareReference("x"), One),
      Begin(<<BareReference("y")>>, <<Rescue(NameErrorY, <<ConstantInt(7)>>)>>),
      RequireCall("foo") }

Generated == UNION {[1..n -> Atoms] : n \in 1..MaxLen}

Conditions ==
    { Boolean(TRUE), Boolean(FALSE), BareReference("nil"), BareReference("x"),
      BareReference("y"), ConstantInt(0), SimpleString("s"), Symbol("c"),
      GlobalVariable("u"), PutsCall(SimpleString("c")), RequireCall("foo") }

Units == {"foo", "two", "dup", "outer", "outer2", "bad", "err", "none", "rubygems"}

Chosen ==
    { <<IfBlock(c, <<One>>, <<Two>>)>> : c \in Conditions }
    \cup { <<RequireCall(u)>> : u \in Units }
    \cup { <<RequireCall(u), FileNameConstReference>> : u \in {"foo", "err", "none"} }
    \cup { <<Begin(<<RequireCall(u)>>, <<Rescue(LoadErrorNone, <<SimpleString("rescued")>>)>>)>> :
             u \in {"none", "err", "bad"} }
    \cup { <<Begin(<<BareReference("y")>>, <<Rescue("StandardError", <<One>>)>>)>>,
           <<Begin(<<BareReference("y")>>,
                   <<Rescue(NameErrorY, <<BareReference("z")>>), Rescue(NameErrorY, <<Two>>)>>)>>,
           <<One, Begin(<<BareReference("y")>>, <<Rescue(NameErrorY, <<Two>>)>>)>>,
           <<Two, Assignment(BareReference("x"), One)>>,
           <<Assignment(BareReference("x"), BareReference("y"))>>,
           <<BareReference("x")>>,
           <<GlobalVariable("u")>>,
           <<FileNameConstReference>>,
           <<CallExpression(<<BareReference("main")>>, "to_s", <<>>)>>,
           <<CallExpression(<<GlobalVariable("u")>>, "to_s", <<>>)>>,
           <<CallExpression(<<BareReference("y")>>, "to_s", <<>>)>>,
           <<CallExpression(<<>>, "bogus", <<One>>)>>,
           <<PutsCall(BareReference("y"))>>,
           <<PutsCall(GlobalVariable("u"))>>,
           <<CallExpression(<<>>, "require", <<>>)>>,
           <<CallExpression(<<>>, "require", <<One>>)>>,
           <<Assignment(One, Two)>>,
           <<Assignment(GlobalVariable("LOAD_PATH"), One), RequireCall("foo")>>,
           <<IfBlock(Boolean(TRUE), <<Assignment(BareReference("x"), BareReference("y")), One>>,
                     <<>>),
             RequireCall("none"), Two>>,
           <<CallExpression(<<GlobalVariable("u")>>, "to_s", <<One>>)>>,
           <<CallExpression(<<BareReference("y")>>, "to_s", <<One>>)>>,
           <<CallExpression(<<BareReference("main")>>, "puts", <<One, SimpleString("s")>>)>>,
           <<IfBlock(Boolean(TRUE), <<CallExpression(<<>>, "bogus", <<One>>)>>, <<>>),
             CallExpression(<<>>, "puts", <<One, BareReference("y"), BareReference("z")>>)>>,
           <<Alias>>,
           <<>> }

\* rescue clauses: matching y's NameError and failing, matching it and
\* succeeding, matching nothing, matching only the first clause's own error
Clauses ==
    { Rescue(NameErrorY, <<BareReference("z")>>),
      Rescue(NameErrorY, <<Two>>),
      Rescue("StandardError", <<One>>),
      Rescue(NameErrorZ, <<ConstantInt(7)>>) }

Rescues ==
    { <<Begin(<<BareReference("y")>>, cs)>> :
        cs \in UNION {[1..n -> Clauses] : n \in 0..MaxRescue} }

RescueInputs == {Parsed(p) : p \in Rescues}

Inputs == {ParseFailure} \cup {Parsed(p) : p \in Generated \cup Chosen}

----------------------------------------------------------------------------
(* State machine: NewVM, then the driver's loop *)

EmptyMap == [x \in {} |-> NilV]
NoResult == [val |-> NilV, err |-> NoErr]

\* NewVM(name)
Init ==
    /\ currentFilename = MainName
    /\ stack = <<>>
    /\ CurrentGlobals = [x \in {"LOAD_PATH", ":"} |-> LoadPathArray]
    /\ ObjectSpace = [x \in {"Object", "Kernel", "File", "ARGV", "main"} |->
                        CASE x = "ARGV" -> ArgvArray
                          [] x = "main" -> mainObject
                          [] OTHER -> Val("Class", x, 0)]
    /\ CurrentSymbols = EmptyMap
    /\ loadPath = <<>>
    /\ kernelMethods = {}
    /\ crashed = FALSE
    /\ pc = "read"
    /\ result = NoResult
    /\ obs = NoEvents

\* the vm as the evaluator's record
TheVM ==
    [fn |-> currentFilename, os |-> ObjectSpace, gl |-> CurrentGlobals,
     sy |-> CurrentSymbols, stack |-> stack, lp |-> loadPath, kernel |-> kernelMethods,
     panic |-> FALSE, units |-> <<currentFilename>>, steps |-> 0, nrun |-> 0,
     nexec |-> 0,
     ev |-> NoEvents]

\* main: result, err := vm.Run(txt)
ReadRun(input) ==
    /\ pc = "read"
    /\ ~crashed
    /\ \E r \in {Run(input, TheVM)} :
          /\ currentFilename' = r.m.fn
          /\ ObjectSpace' = r.m.os
          /\ CurrentGlobals' = r.m.gl
          /\ CurrentSymbols' = r.m.sy
          /\ stack' = r.m.stack
          /\ kernelMethods' = r.m.kernel
          /\ crashed' = r.m.panic
          /\ result' = [val |-> r.val, err |-> r.err]
          /\ obs' = r.m.ev
    /\ pc' = "print"
    /\ UNCHANGED loadPath

\* main: the result or the error is printed and the loop reads again
PrintResult ==
    /\ pc = "print"
    /\ ~crashed
    /\ pc' = "read"
    /\ result' = NoResult
    /\ obs' = NoEvents
    /\ UNCHANGED <<currentFilename, ObjectSpace, CurrentGlobals, CurrentSymbols, stack,
                   loadPath, kernelMethods, crashed>>

\* a directory is appended to the load path array
AppendLoadPath(dir) ==
    /\ pc = "read"
    /\ ~crashed
    /\ Len(loadPath) < MaxPath
    /\ loadPath' = Append(loadPath, dir)
    /\ UNCHANGED <<currentFilename, ObjectSpace, CurrentGlobals, CurrentSymbols, stack,
                   kernelMethods, crashed, pc, result, obs>>

\* inputs about names: symbols, bare names, globals, declarations
NameAtoms ==
    { Symbol("a"), Symbol("b"),
      Assignment(BareReference("x"), One),
      Assignment(GlobalVariable("x"), Two),
      BareReference("x"),
      GlobalVariable("x") }

NameChosen ==
    { <<Symbol("a"), Symbol("a")>>,
      <<IfBlock(Symbol("c"), <<Symbol("a")>>, <<>>)>>,
      <<GlobalVariable("y"), BareReference("x")>>,
      <<FuncDecl("f", <<Assignment(GlobalVariable("x"), Two), Symbol("b")>>)>>,
      <<FuncDecl("g", <<>>), FuncDecl("f", <<BareReference("y")>>)>>,
      <<>> }

NameInputs ==
    {ParseFailure}
    \cup {Parsed(p) : p \in UNION {[1..n -> NameAtoms] : n \in 1..MaxLen} \cup NameChosen}

Next ==
    \/ \E input \in Inputs : ReadRun(input)
    \/ PrintResult
    \/ \E dir \in Dirs : AppendLoadPath(dir)

Spec == Init /\ [][Next]_vars

\* the driver fed with the inputs about names
NextNames ==
    \/ \E input \in NameInputs : ReadRun(input)
    \/ PrintResult

\* the driver reading programs that are one begin/rescue block
NextRescue ==
    \/ \E input \in RescueInputs : ReadRun(input)
    \/ PrintResult

SpecRescue == Init /\ [][NextRescue]_vars

SpecNames == Init /\ [][NextNames]_vars

----------------------------------------------------------------------------
(* Claims *)

\* C1: when a Run returns (top-level or nested through require; successful,
\* failed with a language-level error, or failed with a ParseError) the call
\* stack is what it was before the invocation.
C1_RunRestoresCallStack ==
    /\ \A e \in obs.runs : e.after = e.before
    /\ pc = "print" /\ ~crashed => stack = <<>>

\* a nested Run that started with frames on the stack returned a NameError,
\* and the top-level Run around it returned too
C1_Witness ==
    /\ \E e \in obs.runs : e.nested /\ e.out = "NameError" /\ Len(e.before) >= 2
    /\ \E e \in obs.runs : ~e.nested /\ e.out = "NameError"

\* C2: whenever the evaluator starts a statement of a sequence, the call stack
\* is what it was when the sequence was entered (the frame of an earlier call
\* of the sequence has been popped).
C2_FramePoppedBeforeNextStatement ==
    \A e \in obs.starts : e.at = e.entry

\* C3: a non-empty statement sequence returns the (value, error) pair that its
\* last node, evaluated alone, produces.
C3_SequenceReturnsLastNodeResult ==
    \A e \in obs.seqs : e.val = e.lastVal /\ e.err = e.lastErr

\* C4: when some statement of a Run's top-level sequence fails and no
\* begin/rescue absorbs the failure, the Run returns a non-nil error.
C4_UnrescuedErrorReachesCaller ==
    \A e \in obs.runs : e.fail => e.out # "ok"

\* C5: a Begin node whose body fails, with a matching rescue clause whose
\* body succeeds, yields the rescue body's value and no error; with no
\* matching clause it yields the body's error unchanged.
C5_RescueYieldsRescueBodyResult ==
    \A e \in obs.begins :
        /\ e.fresh /\ e.rescued => e.val = e.rescueVal /\ e.err = NoErr
        /\ e.fresh /\ ~e.matched => e.err = e.bodyErr

\* C6: a conditional on a bare reference takes the else sequence when the
\* name is "nil", the then-body for any other name, and never looks the
\* reference up.
C6_BareReferenceCondition ==
    \A e \in obs.ifs :
        e.kind = "BareReference" =>
            /\ e.branch = (IF e.name = "nil" THEN "else" ELSE "then")
            /\ e.untouched

\* C7: a conditional whose condition is neither a literal boolean nor a bare
\* reference takes the then-body without evaluating the condition; on a
\* literal boolean it takes the then-body exactly when the literal is true.
C7_OtherConditionsAreTruthy ==
    \A e \in obs.ifs :
        /\ e.kind \notin {"Boolean", "BareReference"} =>
               e.branch = "then" /\ e.untouched
        /\ e.kind = "Boolean" => (e.branch = "then" <=> e.lit)

\* conditionals on an unset global, on a call and on a false literal were run
C7_Witness ==
    /\ pc = "print"
    /\ \E e \in obs.ifs :
          e.kind \in {"GlobalVariable", "CallExpression", "Symbol"} /\ e.branch = "then"

\* C8: inside the nested run of a found unit the file-name constant is the
\* resolved path, and when require returns the current unit name is what it
\* was before the call, whatever the nested run returned and at any nesting.
C8_RequireSwapsAndRestoresUnitName ==
    /\ \A e \in obs.reqs :
          /\ e.fnAfter = e.fnBefore
          /\ e.path # "" => e.fnIn = e.path
    /\ \A e \in obs.files : e.val = e.unit
    /\ currentFilename = MainName

\* a require nested inside a required unit failed with a NameError, after the
\* file-name constant had been evaluated inside the inner unit
C8_Witness ==
    /\ \E e \in obs.reqs : e.depth = 2 /\ e.path = "/b/err.rb" /\ e.err.k = "NameError"
    /\ \E e \in obs.reqs : e.depth = 1 /\ e.path = "/a/outer2.rb" /\ e.err.k = "NameError"
    /\ \E e \in obs.files : e.val = "/b/err.rb"

\* C9: once a file of the load path has been opened, no later directory is
\* tried, even when reading the opened file fails.
C9_FirstOpenedFileDecides ==
    \A e \in obs.reqs :
        /\ Len(e.opened) <= 1
        /\ e.opened # <<>> => e.tried[Len(e.tried)] = e.opened[1]

\* C10: when no directory of the load path holds an openable <name>.rb,
\* require fails with a LoadError that names the unit and carries the current
\* backtrace, evaluates nothing and leaves the VM's state unchanged.
C10_RequireMiss ==
    \A e \in obs.reqs :
        (/\ e.unit # "rubygems"
         /\ \A i \in 1..Len(e.lp) : ~CanOpen(Join(e.lp[i], e.unit \o ".rb")))
        => /\ e.val = NilV
           /\ e.err.k = "LoadError"
           /\ e.err.s = "LoadError: cannot load such file -- " \o e.unit
           /\ e.err.bt = StackString(e.stack)
           /\ ~e.evaluated
           /\ e.same

\* a unit that no directory of a two-directory load path holds was required
C10_Witness ==
    \E e \in obs.reqs :
        /\ e.unit = "none" /\ Len(e.lp) = 2 /\ Len(e.tried) = 2
        /\ e.err.k = "LoadError" /\ e.err.bt = "require\nmain\n"

\* C11: require("rubygems") returns the false value and no error, whatever the
\* load path holds, without opening a file, without re-entering Run and
\* without changing the VM (the current unit name included).
C11_RubygemsIsNoOp ==
    \A e \in obs.reqs :
        e.unit = "rubygems" =>
            /\ e.val = FalseV /\ e.err = NoErr
            /\ e.tried = <<>> /\ e.opened = <<>> /\ e.path = ""
            /\ ~e.evaluated
            /\ e.same /\ e.fnAfter = e.fnBefore

\* rubygems was required while the load path held a directory with a
\* readable rubygems.rb
C11_Witness ==
    \E e \in obs.reqs :
        /\ e.unit = "rubygems" /\ e.val = FalseV
        /\ \E i \in 1..Len(e.lp) : CanRead(Join(e.lp[i], "rubygems.rb"))

\* C12: every evaluation of a symbol literal returns the instance the symbols
\* table holds for its name, an entry of the table is never replaced, and
\* different names never share an instance.
C12_SymbolsAreInterned ==
    /\ [](/\ \A e \in obs.syms :
               e.name \in DOMAIN CurrentSymbols /\ CurrentSymbols[e.name] = e.val
           /\ \A a, b \in DOMAIN CurrentSymbols :
               a # b => CurrentSymbols[a].n # CurrentSymbols[b].n)
    /\ [][\A a \in DOMAIN CurrentSymbols :
             a \in DOMAIN CurrentSymbols' /\ CurrentSymbols'[a] = CurrentSymbols[a]]_vars

\* with two names interned, a symbol literal was evaluated again and found
C12_Witness ==
    /\ pc = "print"
    /\ Cardinality(DOMAIN CurrentSymbols) = 2
    /\ \E e \in obs.syms : e.hit /\ e.val.n = 0
    /\ \E e \in obs.syms : ~e.hit

\* C13: object space and globals are disjoint for evaluation.  A bare
\* assignment writes only object space and a global assignment only globals;
\* a bare reference reads only object space and a global reference only
\* globals; so with x = 1 and $x = 2 made in any order, x is 1 and $x is 2.
C13_ScopesAreDisjoint ==
    /\ \A e \in obs.assigns :
          /\ (e.kind = "BareReference" /\ ~e.failed) =>
                 e.glSame /\ Lookup(e.os, e.name) = e.val
          /\ (e.kind = "GlobalVariable" /\ ~e.failed) =>
                 e.osSame /\ Lookup(e.gl, e.name) = e.val
    /\ \A e \in obs.refs :
          /\ e.kind = "bare" => IF e.inOs THEN e.val = e.os /\ e.err = NoErr
                                 ELSE e.err # NoErr
          /\ e.kind = "global" => e.val = e.gl /\ e.err = NoErr
    /\ "x" \in DOMAIN ObjectSpace => ObjectSpace["x"] = NewInt(1)
    /\ "x" \in DOMAIN CurrentGlobals => CurrentGlobals["x"] = NewInt(2)

\* with both x and $x assigned, both were read in one Run
C13_Witness ==
    /\ \E e \in obs.refs : e.kind = "bare" /\ e.name = "x" /\ e.inGl /\ e.val = NewInt(1)
    /\ \E e \in obs.refs : e.kind = "global" /\ e.name = "x" /\ e.inOs /\ e.val = NewInt(2)

\* C14: a reference to a global that globals does not bind never produces an
\* error and yields nil; a bare reference to a name that object space does
\* not bind always produces a NameError carrying the name.
C14_UnsetGlobalVersusUnsetBare ==
    \A e \in obs.refs :
        /\ (e.kind = "global" /\ ~e.inGl) => e.err = NoErr /\ e.val = NilV
        /\ (e.kind = "bare" /\ ~e.inOs) =>
               e.err = NewNameError(e.name, "main", "Object", StackString(e.stack))

\* in one Run an unset global was read, and a bare name that only globals
\* binds was read
C14_Witness ==
    /\ \E e \in obs.refs : e.kind = "global" /\ ~e.inGl /\ e.val = NilV
    /\ \E e \in obs.refs : e.kind = "bare" /\ ~e.inOs /\ e.inGl

\* C20: a function declaration installs a private method of the declared
\* name on the value object space binds to Kernel and yields that method; it
\* evaluates no statement of the declared body and leaves globals, symbols,
\* the call stack and the object-space bindings as they were; the installed
\* method returns no value and no error whatever its arguments.
C20_FuncDeclInstallsStub ==
    \A e \in obs.decls :
        /\ e.installed /\ e.others
        /\ e.val = NewMethod(e.name)
        /\ e.same /\ e.quiet
        /\ \A i \in e.invoked : i.val = NilV /\ i.err = NoErr /\ i.same

\* f, whose body assigns $x, was declared while $x was unset, and stays so
C20_Witness ==
    /\ pc = "print"
    /\ \E e \in obs.decls : e.name = "f" /\ e.installed
    /\ "f" \in kernelMethods
    /\ "x" \notin DOMAIN CurrentGlobals
    /\ result.val = NewMethod("f")

\* C15: every error a begin body can produce, a required unit's ParseError
\* included, is a value with a string form, so that the begin/rescue block
\* ends with a result or an error and never aborts the process.
C15_BeginBodyErrorsAreValues ==
    /\ \A e \in obs.panics : e.at = "Begin" => IsValue(e.err)
    /\ \A e \in obs.reqs : e.err # NoErr => IsValue(e.err)

\* C18: rescue clauses are tried in source order and each is matched against
\* the string form of the body's original error; the first matching clause
\* whose body succeeds ends the search and the block adds no error; a failing
\* clause body lets the search go on, and when no clause body succeeds the
\* block yields the error of the last clause body evaluated (the body's own
\* error when none was).
C18_RescueClausesInOrder ==
    \A e \in obs.begins :
        LET M == {i \in 1..Len(e.classes) : e.classes[i] = ValueString(e.bodyErr)}
            n == Len(e.ran)
            Ran == {e.ran[k].i : k \in 1..n}
        IN /\ \A k \in 1..n, l \in 1..n : k < l => e.ran[k].i < e.ran[l].i
           /\ \A k \in 1..n : k < n => e.ran[k].err # NoErr
           /\ IF n > 0 /\ e.ran[n].err = NoErr
              THEN /\ Ran = {i \in M : i <= e.ran[n].i}
                   /\ e.added = NoErr /\ e.err = e.before
              ELSE /\ Ran = M
                   /\ e.added = IF n = 0 THEN e.bodyErr ELSE e.ran[n].err
                   /\ e.err = e.added

\* a matching clause failed with an error that a later clause names; that
\* clause was passed over, and a still later matching clause succeeded with
\* one more matching clause left untried
C18_Witness ==
    \E e \in obs.begins :
        /\ Len(e.ran) = 2
        /\ e.ran[1].err # NoErr /\ e.ran[2].err = NoErr
        /\ \E j \in 1..Len(e.classes) :
              e.ran[2].i < j /\ e.classes[j] = ValueString(e.bodyErr)
        /\ \E i \in 1..Len(e.classes) :
              /\ e.ran[1].i < i /\ i < e.ran[2].i
              /\ e.classes[i] = ValueString(e.ran[1].err)
        /\ e.added = NoErr

\* C16: a failing call expression or assignment ends its statement sequence,
\* no later statement of the sequence being evaluated, and an assignment
\* whose right-hand side failed leaves object space and globals as they were.
C16_FailedCallOrAssignmentEndsSequence ==
    /\ \A e \in obs.nexts :
          (e.prev \in {"CallExpression", "Assignment"} /\ e.failed) => ~e.cont
    /\ \A e \in obs.assigns : e.failed => e.ret /\ e.osSame /\ e.glSame

\* a failed assignment and a failed call each ended a sequence that had a
\* statement left
C16_Witness ==
    /\ \E e \in obs.nexts : e.prev = "Assignment" /\ e.failed /\ e.left > 0
    /\ \E e \in obs.nexts : e.prev = "CallExpression" /\ e.failed /\ e.left > 0
    /\ \E e \in obs.assigns : e.failed /\ e.kind = "BareReference"
    /\ "x" \notin DOMAIN ObjectSpace

\* C17: a call evaluates the receiver, checks it for nil, resolves the
\* method, evaluates the arguments from left to right, pushes the frame and
\* invokes, in this order: no argument is evaluated when the receiver fails,
\* is nil (NoMethodError) or lacks the method (NameError), and no frame is
\* pushed and nothing invoked when an argument fails.
C17_CallOrder ==
    \A e \in obs.order :
        /\ e.stage \in {"receiver", "nil", "lookup"} =>
               e.argSteps = 0 /\ e.args = <<>> /\ ~e.pushed /\ ~e.invoked
        /\ e.stage = "nil" => e.err = "NoMethodError"
        /\ e.stage = "lookup" => e.err = "NameError"
        /\ e.stage = "args" =>
               /\ ~e.pushed /\ ~e.invoked /\ Len(e.args) < e.nargs
               /\ e.atoms => e.argSteps = Len(e.args) + 1
        /\ e.stage = "executed" =>
               /\ e.pushed /\ e.invoked /\ Len(e.args) = e.nargs
               /\ e.atoms => e.argSteps = e.nargs
        /\ \A k \in e.ints : k <= Len(e.args) => e.args[k] = NewInt(1)

\* in one Run a call with an argument did not find its method, and a call
\* with three arguments failed in the second
C17_Witness ==
    /\ \E e \in obs.order : e.stage = "lookup" /\ e.nargs = 1
    /\ \E e \in obs.order : e.stage = "args" /\ e.nargs = 3 /\ Len(e.args) = 1

\* C19: the list of directories require searches is the array the global
\* LOAD_PATH binds, which is also the array its alias ":" binds, in every
\* reachable state.
C19_LoadPathGlobalIsSearchedArray ==
    /\ Lookup(CurrentGlobals, "LOAD_PATH") = LoadPathArray
    /\ Lookup(CurrentGlobals, ":") = LoadPathArray

====
